---- MODULE Spec2Model ----
(***************************************************************************)
(* AdventureGPT game-state engine: the world loader (load_game over a      *)
(* json-c document, and its legacy variant over cJSON), the world model    *)
(* (GameState) and its operations                                          *)
(* move_player, has_item, add_item_to_inventory,                           *)
(* remove_item_from_inventory, get_flag, set_flag and                      *)
(* check_location_requirements, and the event loop of main with its        *)
(* command interpreter handle_input.                                       *)
(*                                                                         *)
(* C strings are sequences of character codes 1..255 (no embedded NUL).    *)
(* A fixed-size array with its count, such as inventory[]/inventory_count, *)
(* is a sequence whose length is the count.  A Location* is an index into  *)
(* game.locations, and 0 is the null pointer.                              *)
(***************************************************************************)
EXTENDS Integers, Sequences, FiniteSets, TLC

VARIABLES
    document,   \* the game file handed to load_game (never changes)
    game,       \* the GameState load_game returned, or NULL_GAME
    op,         \* the last call: its name, argument, return value and return path
    pre,        \* the GameState as it was when the last call started
    calls,      \* how many calls (or, in main's loop, events) came since the load
    renderer,   \* the GameRenderer of main: the input line and the running flag
    pc          \* where main stands: "poll" in its event loop, "exited", "failed",
                \* "overflowed" once input_buffer was written past its end

vars == <<document, game, op, pre, calls, renderer, pc>>

(***************************************************************************)
(* Program constants                                                       *)
(***************************************************************************)
MAX_EXITS == 8
MAX_ITEMS == 32
MAX_LOCATIONS == 256
MAX_INVENTORY_ITEMS == 64
MAX_FLAGS == 128
\* sizeof of the char arrays that safe_strcpy writes into
SIZEOF_DIRECTION == 32
SIZEOF_TARGET_LOCATION == 64
SIZEOF_ID == 64
SIZEOF_INVENTORY_ENTRY == 64
SIZEOF_CURRENT_LOCATION == 64
SIZEOF_START_LOCATION == 64
SIZEOF_FLAG_NAME == 64
SIZEOF_ITEM_ID == 64
\* main.c: the size of GameRenderer.input_buffer
MAX_INPUT_LENGTH == 256

(***************************************************************************)
(* Bounds of the model                                                     *)
(***************************************************************************)
\* the longest string tried is this many characters longer than what its
\* destination buffer can hold (buffer size - 1)
Overlong == 1
\* the longest inventory array in a document has this many entries more
\* than MAX_INVENTORY_ITEMS
OverCapacity == 1
\* the world model is called at most this many times after the load
MaxCalls == 5
\* a flag operation or a requirement check is among the first this many calls
MaxFlagCalls == 3
\* main handles at most this many events
MaxEvents == 4
\* the longest input line typed has this many characters
MaxLine == 10
\* the line typed before is at most this many characters short of full
NearFull == 3

(***************************************************************************)
(* Strings                                                                 *)
(***************************************************************************)
Min(S) == CHOOSE m \in S : \A n \in S : m <= n
Max(S) == CHOOSE m \in S : \A n \in S : m >= n

\* the string made of n copies of character c
Rep(c, n) == [i \in 1..n |-> c]

\* a char* that is NULL (character codes are 1..255, so no string is <<0>>)
NULL_STR == <<0>>

\* strncpy(dest, src, dest_size - 1); dest[dest_size - 1] = '\0'
safe_strcpy(src, dest_size) ==
    IF src = NULL_STR THEN <<>>
    ELSE SubSeq(src, 1, IF Len(src) < dest_size - 1 THEN Len(src) ELSE dest_size - 1)

\* 0 when the two strings are equal, nonzero otherwise
strcmp(a, b) == IF a = b THEN 0 ELSE 1

tolower(c) == IF c >= 65 /\ c <= 90 THEN c + 32 ELSE c

\* a mutation of strcasecmp: the comparison is case-sensitive
strcasecmp_exact(a, b) == IF a = b THEN 0 ELSE 1

\* 0 when the two strings are equal ignoring ASCII letter case
strcasecmp(a, b) ==
    IF Len(a) = Len(b) /\ \A i \in 1..Len(a) : tolower(a[i]) = tolower(b[i])
    THEN 0 ELSE 1

(***************************************************************************)
(* json-c values.  An object keeps its members in insertion order and its  *)
(* keys are pairwise distinct.                                             *)
(***************************************************************************)
JAbsent == [type |-> "absent"]     \* no such key: json_object_object_get_ex is false
JNull == [type |-> "null"]         \* the NULL json_object*
JInvalid == [type |-> "invalid"]   \* text json_tokener_parse rejects
JStr(s) == [type |-> "string", str |-> s]
JBool(b) == [type |-> "boolean", bool |-> b]
JInt(n) == [type |-> "int", int |-> n]
JArr(es) == [type |-> "array", elems |-> es]
JObj(ms) == [type |-> "object", members |-> ms]
KV(k, v) == [key |-> k, value |-> v]

json_object_is_type(value, type) == value.type = type

\* the value under key, or JAbsent; false (JAbsent) too when obj is no object
json_object_object_get_ex(obj, key) ==
    IF obj.type # "object" THEN JAbsent
    ELSE IF \E i \in 1..Len(obj.members) : obj.members[i].key = key
         THEN obj.members[CHOOSE i \in 1..Len(obj.members) : obj.members[i].key = key].value
         ELSE JAbsent

\* the string under key, or NULL
get_json_string(obj, key) ==
    LET value == json_object_object_get_ex(obj, key)
    IN  IF value # JAbsent /\ json_object_is_type(value, "string") THEN value.str
        ELSE NULL_STR

get_json_bool(obj, key) ==
    LET value == json_object_object_get_ex(obj, key)
    IN  IF value # JAbsent /\ json_object_is_type(value, "boolean") THEN value.bool
        ELSE FALSE

(***************************************************************************)
(* The loader                                                              *)
(***************************************************************************)
NULL_GAME == [null |-> TRUE]

\* calloc(1, sizeof(Location)): every count 0, every string empty
EmptyLocation ==
    [id |-> <<>>, visited |-> FALSE, exits |-> <<>>, items |-> <<>>,
     flags_required |-> <<>>, flags_set |-> <<>>]

\* calloc(1, sizeof(GameState))
EmptyGameState ==
    [start_location |-> <<>>,
     locations |-> <<>>,
     inventory_items |-> <<>>,
     game_flags |-> <<>>,
     player |-> [inventory |-> <<>>, current_location |-> <<>>, flags |-> <<>>]]

\* a mutation of parse_exits: the capacity test is > instead of >=
RECURSIVE parse_exits_off_by_one(_, _, _)
parse_exits_off_by_one(members, i, exits) ==
    IF i > Len(members) \/ Len(exits) > MAX_EXITS THEN exits
    ELSE IF json_object_is_type(members[i].value, "string")
         THEN parse_exits_off_by_one(members, i + 1,
                  Append(exits,
                         [direction |-> safe_strcpy(members[i].key, SIZEOF_DIRECTION),
                          target_location |->
                              safe_strcpy(members[i].value.str, SIZEOF_TARGET_LOCATION)]))
         ELSE parse_exits_off_by_one(members, i + 1, exits)

\* the json_object_object_foreach loop over "exits", from member i on
RECURSIVE parse_exits(_, _, _)
parse_exits(members, i, exits) ==
    IF i > Len(members) \/ Len(exits) >= MAX_EXITS THEN exits
    ELSE IF json_object_is_type(members[i].value, "string")
         THEN parse_exits(members, i + 1,
                  Append(exits,
                         [direction |-> safe_strcpy(members[i].key, SIZEOF_DIRECTION),
                          target_location |->
                              safe_strcpy(members[i].value.str, SIZEOF_TARGET_LOCATION)]))
         ELSE parse_exits(members, i + 1, exits)

\* a for loop that copies the string elements of a json array into an array
\* of char[64], up to max entries
RECURSIVE parse_string_array(_, _, _, _)
parse_string_array(elems, i, out, max) ==
    IF i > Len(elems) \/ Len(out) >= max THEN out
    ELSE IF json_object_is_type(elems[i], "string")
         THEN parse_string_array(elems, i + 1,
                  Append(out, safe_strcpy(elems[i].str, SIZEOF_INVENTORY_ENTRY)), max)
         ELSE parse_string_array(elems, i + 1, out, max)

\* parse_location into a zeroed slot; ok is its return value
parse_location(location_json, location_id) ==
    IF location_json = JNull THEN [ok |-> FALSE, location |-> EmptyLocation]
    ELSE LET exits == json_object_object_get_ex(location_json, "exits")
             items == json_object_object_get_ex(location_json, "items")
         IN  [ok |-> TRUE,
              location |->
                [EmptyLocation EXCEPT
                   !.id = safe_strcpy(location_id, SIZEOF_ID),
                   !.visited = get_json_bool(location_json, "visited"),
                   !.exits = IF exits # JAbsent /\ json_object_is_type(exits, "object")
                             THEN parse_exits(exits.members, 1, <<>>)
                             ELSE <<>>,
                   !.items = IF items # JAbsent /\ json_object_is_type(items, "array")
                             THEN parse_string_array(items.elems, 1, <<>>, MAX_ITEMS)
                             ELSE <<>>]]

\* the passes from..to of the json_object_object_foreach loop over
\* "locations"
RECURSIVE parse_locations_range(_, _, _, _)
parse_locations_range(members, from, to, locations) ==
    IF from > to THEN locations
    ELSE IF from = to
    THEN IF Len(locations) >= MAX_LOCATIONS THEN locations
         ELSE LET r == parse_location(members[from].value, members[from].key)
              IN  IF r.ok THEN Append(locations, r.location) ELSE locations
    ELSE LET middle == (from + to) \div 2
             first == parse_locations_range(members, from, middle, locations)
         IN  IF Len(first) <= MAX_LOCATIONS
             THEN parse_locations_range(members, middle + 1, to, first)
             ELSE first

\* the json_object_object_foreach loop over "locations", from member i on;
\* the passes of the loop are taken in order, the first half of the members
\* before the second
parse_locations(members, i, locations) ==
    parse_locations_range(members, i, Len(members), locations)

\* parse_inventory_item: what it stores for one member of "inventory_items";
\* ok is its return value
parse_inventory_item(item_json, item_id) ==
    IF item_json = JNull THEN [ok |-> FALSE, item |-> [id |-> <<>>]]
    ELSE [ok |-> TRUE, item |-> [id |-> safe_strcpy(item_id, SIZEOF_ITEM_ID)]]

\* the json_object_object_foreach loop over "inventory_items", from member
\* i on
RECURSIVE parse_inventory_items(_, _, _)
parse_inventory_items(members, i, items) ==
    IF i > Len(members) \/ Len(items) >= MAX_INVENTORY_ITEMS THEN items
    ELSE LET r == parse_inventory_item(members[i].value, members[i].key)
         IN  parse_inventory_items(members, i + 1,
                 IF r.ok THEN Append(items, r.item) ELSE items)

\* load_game once the file is read and parsed into json (not NULL)
load_world(json) ==
    LET start == get_json_string(json, "start_location")
        start_location == IF start # NULL_STR
                          THEN safe_strcpy(start, SIZEOF_START_LOCATION)
                          ELSE <<>>
        locations == json_object_object_get_ex(json, "locations")
        inventory_items == json_object_object_get_ex(json, "inventory_items")
        player == json_object_object_get_ex(json, "player")
        current == IF player # JAbsent
                   THEN get_json_string(player, "current_location") ELSE NULL_STR
        inventory == IF player # JAbsent
                     THEN json_object_object_get_ex(player, "inventory") ELSE JAbsent
    IN  [EmptyGameState EXCEPT
           !.start_location = start_location,
           !.locations = IF locations # JAbsent /\ json_object_is_type(locations, "object")
                         THEN parse_locations(locations.members, 1, <<>>)
                         ELSE <<>>,
           !.inventory_items =
               IF inventory_items # JAbsent /\ json_object_is_type(inventory_items, "object")
               THEN parse_inventory_items(inventory_items.members, 1, <<>>)
               ELSE <<>>,
           !.player.current_location =
               IF current # NULL_STR
               THEN safe_strcpy(current, SIZEOF_CURRENT_LOCATION)
               ELSE safe_strcpy(start_location, SIZEOF_CURRENT_LOCATION),
           !.player.inventory =
               IF inventory # JAbsent /\ json_object_is_type(inventory, "array")
               THEN parse_string_array(inventory.elems, 1, <<>>, MAX_INVENTORY_ITEMS)
               ELSE <<>>]

\* load_game: NULL when the file cannot be read or json_tokener_parse
\* returns NULL (invalid text, or the text "null")
load_game(file) ==
    IF ~file.readable THEN NULL_GAME
    ELSE IF file.json = JInvalid \/ file.json = JNull THEN NULL_GAME
    ELSE load_world(file.json)

(***************************************************************************)
(* The legacy loader, written against cJSON.  It reads the same documents: *)
(* a value of type "null" is an item of type cJSON_NULL here, not a NULL   *)
(* pointer, and valuestring is NULL in every item that is not a string.    *)
(* cJSON_GetObjectItem compares keys ignoring case; the documents tried    *)
(* hold no two keys that differ only in case.                              *)
(***************************************************************************)
\* the item under key, or JAbsent for NULL
cJSON_GetObjectItem(obj, key) ==
    IF obj.type # "object" THEN JAbsent
    ELSE IF \E i \in 1..Len(obj.members) : obj.members[i].key = key
         THEN obj.members[Min({i \in 1..Len(obj.members) : obj.members[i].key = key})].value
         ELSE JAbsent

\* item->valuestring
valuestring(item) == IF item.type = "string" THEN item.str ELSE NULL_STR

\* the cJSON_ArrayForEach loop over "exits", from member i on
RECURSIVE parse_exits_cjson(_, _, _)
parse_exits_cjson(members, i, exits) ==
    IF i > Len(members) \/ Len(exits) >= MAX_EXITS THEN exits
    ELSE parse_exits_cjson(members, i + 1,
             Append(exits,
                    [direction |-> safe_strcpy(members[i].key, SIZEOF_DIRECTION),
                     target_location |->
                         safe_strcpy(valuestring(members[i].value),
                                     SIZEOF_TARGET_LOCATION)]))

\* parse_location of the legacy loader; location_json is never NULL in the
\* loop of load_game
parse_location_cjson(location_json, location_id) ==
    LET visited == cJSON_GetObjectItem(location_json, "visited")
        exits == cJSON_GetObjectItem(location_json, "exits")
        items == cJSON_GetObjectItem(location_json, "items")
    IN  [ok |-> TRUE,
         location |->
           [EmptyLocation EXCEPT
              !.id = safe_strcpy(location_id, SIZEOF_ID),
              !.visited = IF visited # JAbsent /\ visited.type = "boolean"
                          THEN visited.bool ELSE FALSE,
              !.exits = IF exits # JAbsent /\ exits.type = "object"
                        THEN parse_exits_cjson(exits.members, 1, <<>>)
                        ELSE <<>>,
              !.items = IF items # JAbsent /\ items.type = "array"
                        THEN parse_string_array(items.elems, 1, <<>>, MAX_ITEMS)
                        ELSE <<>>]]

\* the cJSON_ArrayForEach loop over "locations", from member i on
RECURSIVE parse_locations_cjson(_, _, _)
parse_locations_cjson(members, i, locations) ==
    IF i > Len(members) \/ Len(locations) >= MAX_LOCATIONS THEN locations
    ELSE LET r == parse_location_cjson(members[i].value, members[i].key)
         IN  parse_locations_cjson(members, i + 1,
                 IF r.ok THEN Append(locations, r.location) ELSE locations)

\* the cJSON_ArrayForEach loop over "inventory_items", from member i on;
\* parse_inventory_item of the legacy loader never sees a NULL item
RECURSIVE parse_inventory_items_cjson(_, _, _)
parse_inventory_items_cjson(members, i, items) ==
    IF i > Len(members) \/ Len(items) >= MAX_INVENTORY_ITEMS THEN items
    ELSE parse_inventory_items_cjson(members, i + 1,
             Append(items, [id |-> safe_strcpy(members[i].key, SIZEOF_ITEM_ID)]))

\* load_game of the legacy loader: NULL when the file cannot be read or
\* cJSON_Parse returns NULL (invalid text)
load_game_cjson(file) ==
    IF ~file.readable \/ file.json = JInvalid THEN NULL_GAME
    ELSE LET json == file.json
             start == cJSON_GetObjectItem(json, "start_location")
             start_location == IF start # JAbsent /\ start.type = "string"
                               THEN safe_strcpy(start.str, SIZEOF_START_LOCATION)
                               ELSE <<>>
             locations == cJSON_GetObjectItem(json, "locations")
             inventory_items == cJSON_GetObjectItem(json, "inventory_items")
             player == cJSON_GetObjectItem(json, "player")
             current == IF player # JAbsent
                        THEN cJSON_GetObjectItem(player, "current_location")
                        ELSE JAbsent
             inventory == IF player # JAbsent
                          THEN cJSON_GetObjectItem(player, "inventory") ELSE JAbsent
         IN  [EmptyGameState EXCEPT
                !.start_location = start_location,
                !.locations = IF locations # JAbsent /\ locations.type = "object"
                              THEN parse_locations_cjson(locations.members, 1, <<>>)
                              ELSE <<>>,
                !.inventory_items =
                    IF inventory_items # JAbsent /\ inventory_items.type = "object"
                    THEN parse_inventory_items_cjson(inventory_items.members, 1, <<>>)
                    ELSE <<>>,
                !.player.current_location =
                    IF current # JAbsent /\ current.type = "string"
                    THEN safe_strcpy(current.str, SIZEOF_CURRENT_LOCATION)
                    ELSE safe_strcpy(start_location, SIZEOF_CURRENT_LOCATION),
                !.player.inventory =
                    IF inventory # JAbsent /\ inventory.type = "array"
                    THEN parse_string_array(inventory.elems, 1, <<>>, MAX_INVENTORY_ITEMS)
                    ELSE <<>>]

(***************************************************************************)
(* The world model                                                         *)
(***************************************************************************)
\* a mutation of get_location_by_id: the first location is returned when no
\* id matches
get_location_by_id_or_first(g, location_id) ==
    IF g = NULL_GAME \/ location_id = NULL_STR THEN 0
    ELSE LET found == {i \in 1..Len(g.locations) :
                         strcmp(g.locations[i].id, location_id) = 0}
         IN  IF found = {} THEN (IF Len(g.locations) > 0 THEN 1 ELSE 0) ELSE Min(found)

\* the index of the first location whose id is location_id, or 0 (NULL)
get_location_by_id(g, location_id) ==
    IF g = NULL_GAME \/ location_id = NULL_STR THEN 0
    ELSE LET found == {i \in 1..Len(g.locations) :
                         strcmp(g.locations[i].id, location_id) = 0}
         IN  IF found = {} THEN 0 ELSE Min(found)

\* a mutation of get_current_location: a player who stands nowhere is
\* taken to stand at the start location
get_current_location_or_start(g) ==
    IF g = NULL_GAME THEN 0
    ELSE IF get_location_by_id(g, g.player.current_location) # 0
         THEN get_location_by_id(g, g.player.current_location)
         ELSE get_location_by_id(g, g.start_location)

get_current_location(g) ==
    IF g = NULL_GAME THEN 0
    ELSE get_location_by_id(g, g.player.current_location)

\* the indices of the exits the loop of move_player would stop at
matching_exits(exits, direction) ==
    {i \in 1..Len(exits) : strcasecmp(exits[i].direction, direction) = 0}

\* a mutation of first_matching_exit: the last matching exit wins
last_matching_exit(exits, direction) ==
    IF matching_exits(exits, direction) = {} THEN 0
    ELSE Max(matching_exits(exits, direction))

\* the index at which the for loop of move_player returns, or 0 when the
\* loop runs to its end
first_matching_exit(exits, direction) ==
    IF matching_exits(exits, direction) = {} THEN 0
    ELSE Min(matching_exits(exits, direction))

Returned(ret, why, g) == [ret |-> ret, why |-> why, game |-> g]

\* the index of the first entry of a flag table named flag_name, or 0
find_flag(flags, flag_name) ==
    IF \E i \in 1..Len(flags) : strcmp(flags[i].name, flag_name) = 0
    THEN Min({i \in 1..Len(flags) : strcmp(flags[i].name, flag_name) = 0})
    ELSE 0

\* a mutation of get_flag: the game flags are looked up first
get_flag_game_first(g, flag_name) ==
    IF g = NULL_GAME \/ flag_name = NULL_STR THEN FALSE
    ELSE IF find_flag(g.game_flags, flag_name) # 0
         THEN g.game_flags[find_flag(g.game_flags, flag_name)].value
    ELSE IF find_flag(g.player.flags, flag_name) # 0
         THEN g.player.flags[find_flag(g.player.flags, flag_name)].value
    ELSE FALSE

get_flag(g, flag_name) ==
    IF g = NULL_GAME \/ flag_name = NULL_STR THEN FALSE
    ELSE IF find_flag(g.player.flags, flag_name) # 0
         THEN g.player.flags[find_flag(g.player.flags, flag_name)].value
    ELSE IF find_flag(g.game_flags, flag_name) # 0
         THEN g.game_flags[find_flag(g.game_flags, flag_name)].value
    ELSE FALSE

\* a mutation of set_flag: the loop over the game flags is missing
set_flag_player_only(g, flag_name, value) ==
    IF g = NULL_GAME \/ flag_name = NULL_STR THEN Returned(FALSE, "null", g)
    ELSE IF find_flag(g.player.flags, flag_name) # 0
         THEN Returned(TRUE, "player flag updated",
                  [g EXCEPT !.player.flags[find_flag(g.player.flags, flag_name)].value =
                                value])
    ELSE IF Len(g.player.flags) < MAX_FLAGS
         THEN Returned(TRUE, "player flag added",
                  [g EXCEPT !.player.flags =
                      Append(@, [name |-> safe_strcpy(flag_name, SIZEOF_FLAG_NAME),
                                 value |-> value])])
    ELSE Returned(FALSE, "no space", g)

\* a mutation of set_flag: a flag found among the game flags is moved to
\* the player flags
set_flag_migrating(g, flag_name, value) ==
    IF g = NULL_GAME \/ flag_name = NULL_STR THEN Returned(FALSE, "null", g)
    ELSE IF find_flag(g.player.flags, flag_name) # 0
         THEN Returned(TRUE, "player flag updated",
                  [g EXCEPT !.player.flags[find_flag(g.player.flags, flag_name)].value =
                                value])
    ELSE IF find_flag(g.game_flags, flag_name) # 0 /\ Len(g.player.flags) < MAX_FLAGS
         THEN Returned(TRUE, "game flag updated",
                  [g EXCEPT !.game_flags =
                                [j \in 1..(Len(@) - 1) |->
                                    IF j < find_flag(g.game_flags, flag_name)
                                    THEN @[j] ELSE @[j + 1]],
                            !.player.flags =
                                Append(@, [name |-> flag_name, value |-> value])])
    ELSE IF Len(g.player.flags) < MAX_FLAGS
         THEN Returned(TRUE, "player flag added",
                  [g EXCEPT !.player.flags =
                      Append(@, [name |-> safe_strcpy(flag_name, SIZEOF_FLAG_NAME),
                                 value |-> value])])
    ELSE Returned(FALSE, "no space", g)

\* set_flag returns nothing: ret tells whether a flag was written, why where
set_flag(g, flag_name, value) ==
    IF g = NULL_GAME \/ flag_name = NULL_STR THEN Returned(FALSE, "null", g)
    ELSE IF find_flag(g.player.flags, flag_name) # 0
         THEN Returned(TRUE, "player flag updated",
                  [g EXCEPT !.player.flags[find_flag(g.player.flags, flag_name)].value =
                                value])
    ELSE IF find_flag(g.game_flags, flag_name) # 0
         THEN Returned(TRUE, "game flag updated",
                  [g EXCEPT !.game_flags[find_flag(g.game_flags, flag_name)].value =
                                value])
    ELSE IF Len(g.player.flags) < MAX_FLAGS
         THEN Returned(TRUE, "player flag added",
                  [g EXCEPT !.player.flags =
                      Append(@, [name |-> safe_strcpy(flag_name, SIZEOF_FLAG_NAME),
                                 value |-> value])])
    ELSE Returned(FALSE, "no space", g)

\* a mutation of get_flag_call: a flag that no table holds is entered in
\* the player table with the default value
get_flag_call_creating(g, flag_name) ==
    IF g = NULL_GAME \/ flag_name = NULL_STR THEN Returned(FALSE, "null", g)
    ELSE IF find_flag(g.player.flags, flag_name) = 0 /\ find_flag(g.game_flags, flag_name) = 0
              /\ Len(g.player.flags) < MAX_FLAGS
    THEN Returned(FALSE, "read",
           [g EXCEPT !.player.flags =
               Append(@, [name |-> safe_strcpy(flag_name, SIZEOF_FLAG_NAME),
                          value |-> FALSE])])
    ELSE Returned(get_flag(g, flag_name), "read", g)

\* a call of get_flag: its return value and the game state it leaves (it
\* writes nothing through game)
get_flag_call(g, flag_name) == Returned(get_flag(g, flag_name), "read", g)

\* a mutation of check_location_requirements: the loop returns after the
\* first required flag
check_location_requirements_first_only(g, location) ==
    IF g = NULL_GAME \/ location = 0 THEN TRUE
    ELSE LET required == g.locations[location].flags_required
         IN  required = <<>> \/ get_flag(g, required[1].name) = required[1].value

\* location is an index into g.locations, 0 for NULL
check_location_requirements(g, location) ==
    IF g = NULL_GAME \/ location = 0 THEN TRUE
    ELSE LET required == g.locations[location].flags_required
         IN  \A i \in 1..Len(required) : get_flag(g, required[i].name) = required[i].value

\* a mutation of move_player: the move is refused when the target's
\* requirements are not met
move_player_gated(g, direction) ==
    IF g = NULL_GAME \/ direction = NULL_STR THEN Returned(FALSE, "null", g)
    ELSE LET current_location == get_current_location(g)
         IN  IF current_location = 0 THEN Returned(FALSE, "no current location", g)
             ELSE LET exits == g.locations[current_location].exits
                      i == first_matching_exit(exits, direction)
                  IN  IF i = 0 THEN Returned(FALSE, "no such exit", g)
                      ELSE LET target_location ==
                                   get_location_by_id(g, exits[i].target_location)
                           IN  IF target_location # 0
                                  /\ check_location_requirements(g, target_location)
                               THEN Returned(TRUE, "moved",
                                      [g EXCEPT
                                         !.player.current_location =
                                             safe_strcpy(exits[i].target_location,
                                                         SIZEOF_CURRENT_LOCATION),
                                         !.locations[target_location].visited = TRUE])
                               ELSE Returned(FALSE, "dangling exit", g)

\* a mutation of move_player: the player is moved before the target is
\* looked up
move_player_unchecked(g, direction) ==
    IF g = NULL_GAME \/ direction = NULL_STR THEN Returned(FALSE, "null", g)
    ELSE LET current_location == get_current_location(g)
         IN  IF current_location = 0 THEN Returned(FALSE, "no current location", g)
             ELSE LET exits == g.locations[current_location].exits
                      i == first_matching_exit(exits, direction)
                  IN  IF i = 0 THEN Returned(FALSE, "no such exit", g)
                      ELSE LET target_location ==
                                   get_location_by_id(g, exits[i].target_location)
                               moved == [g EXCEPT !.player.current_location =
                                            safe_strcpy(exits[i].target_location,
                                                        SIZEOF_CURRENT_LOCATION)]
                           IN  IF target_location # 0
                               THEN Returned(TRUE, "moved",
                                      [moved EXCEPT
                                         !.locations[target_location].visited = TRUE])
                               ELSE Returned(FALSE, "dangling exit", moved)

\* a mutation of move_player: the target of the exit is not looked up
move_player_no_lookup(g, direction) ==
    IF g = NULL_GAME \/ direction = NULL_STR THEN Returned(FALSE, "null", g)
    ELSE LET current_location == get_current_location(g)
         IN  IF current_location = 0 THEN Returned(FALSE, "no current location", g)
             ELSE LET exits == g.locations[current_location].exits
                      i == first_matching_exit(exits, direction)
                  IN  IF i = 0 THEN Returned(FALSE, "no such exit", g)
                      ELSE Returned(TRUE, "moved",
                               [g EXCEPT !.player.current_location =
                                   safe_strcpy(exits[i].target_location,
                                               SIZEOF_CURRENT_LOCATION)])

\* a mutation of move_player: the target is not marked visited
move_player_unmarked(g, direction) ==
    IF g = NULL_GAME \/ direction = NULL_STR THEN Returned(FALSE, "null", g)
    ELSE LET current_location == get_current_location(g)
         IN  IF current_location = 0 THEN Returned(FALSE, "no current location", g)
             ELSE LET exits == g.locations[current_location].exits
                      i == first_matching_exit(exits, direction)
                  IN  IF i = 0 THEN Returned(FALSE, "no such exit", g)
                      ELSE LET target_location ==
                                   get_location_by_id(g, exits[i].target_location)
                           IN  IF target_location # 0
                               THEN Returned(TRUE, "moved",
                                      [g EXCEPT !.player.current_location =
                                          safe_strcpy(exits[i].target_location,
                                                      SIZEOF_CURRENT_LOCATION)])
                               ELSE Returned(FALSE, "dangling exit", g)

\* a mutation of move_player: a matching exit whose target does not exist
\* is passed over and the loop goes on to the next matching exit
move_player_fall_through(g, direction) ==
    IF g = NULL_GAME \/ direction = NULL_STR THEN Returned(FALSE, "null", g)
    ELSE LET current_location == get_current_location(g)
         IN  IF current_location = 0 THEN Returned(FALSE, "no current location", g)
             ELSE LET exits == g.locations[current_location].exits
                      sound == {i \in matching_exits(exits, direction) :
                                  get_location_by_id(g, exits[i].target_location) # 0}
                  IN  IF matching_exits(exits, direction) = {}
                      THEN Returned(FALSE, "no such exit", g)
                      ELSE IF sound = {} THEN Returned(FALSE, "dangling exit", g)
                      ELSE Returned(TRUE, "moved",
                             [g EXCEPT
                                !.player.current_location =
                                    safe_strcpy(exits[Min(sound)].target_location,
                                                SIZEOF_CURRENT_LOCATION),
                                !.locations[get_location_by_id(g,
                                    exits[Min(sound)].target_location)].visited = TRUE])

\* a mutation of move_player: the location that is left is marked visited,
\* not the one that is entered
move_player_marks_origin(g, direction) ==
    IF g = NULL_GAME \/ direction = NULL_STR THEN Returned(FALSE, "null", g)
    ELSE LET current_location == get_current_location(g)
         IN  IF current_location = 0 THEN Returned(FALSE, "no current location", g)
             ELSE LET exits == g.locations[current_location].exits
                      i == first_matching_exit(exits, direction)
                  IN  IF i = 0 THEN Returned(FALSE, "no such exit", g)
                      ELSE LET target_location ==
                                   get_location_by_id(g, exits[i].target_location)
                           IN  IF target_location # 0
                               THEN Returned(TRUE, "moved",
                                      [g EXCEPT
                                         !.player.current_location =
                                             safe_strcpy(exits[i].target_location,
                                                         SIZEOF_CURRENT_LOCATION),
                                         !.locations[current_location].visited = TRUE])
                               ELSE Returned(FALSE, "dangling exit", g)

\* a mutation of move_player: the first flag the target sets is applied on
\* arrival
move_player_applies_flags_set(g, direction) ==
    IF g = NULL_GAME \/ direction = NULL_STR THEN Returned(FALSE, "null", g)
    ELSE LET current_location == get_current_location(g)
         IN  IF current_location = 0 THEN Returned(FALSE, "no current location", g)
             ELSE LET exits == g.locations[current_location].exits
                      i == first_matching_exit(exits, direction)
                  IN  IF i = 0 THEN Returned(FALSE, "no such exit", g)
                      ELSE LET target_location ==
                                   get_location_by_id(g, exits[i].target_location)
                               moved ==
                                   [g EXCEPT
                                      !.player.current_location =
                                          safe_strcpy(exits[i].target_location,
                                                      SIZEOF_CURRENT_LOCATION),
                                      !.locations[target_location].visited = TRUE]
                           IN  IF target_location = 0
                               THEN Returned(FALSE, "dangling exit", g)
                               ELSE IF g.locations[target_location].flags_set = <<>>
                               THEN Returned(TRUE, "moved", moved)
                               ELSE Returned(TRUE, "moved",
                                      set_flag(moved,
                                          g.locations[target_location].flags_set[1].name,
                                          g.locations[target_location].flags_set[1].value).game)

move_player(g, direction) ==
    IF g = NULL_GAME \/ direction = NULL_STR THEN Returned(FALSE, "null", g)
    ELSE LET current_location == get_current_location(g)
         IN  IF current_location = 0 THEN Returned(FALSE, "no current location", g)
             ELSE LET exits == g.locations[current_location].exits
                      i == first_matching_exit(exits, direction)
                  IN  IF i = 0 THEN Returned(FALSE, "no such exit", g)
                      ELSE LET target_location ==
                                   get_location_by_id(g, exits[i].target_location)
                           IN  IF target_location # 0
                               THEN Returned(TRUE, "moved",
                                      [g EXCEPT
                                         !.player.current_location =
                                             safe_strcpy(exits[i].target_location,
                                                         SIZEOF_CURRENT_LOCATION),
                                         !.locations[target_location].visited = TRUE])
                               ELSE Returned(FALSE, "dangling exit", g)

has_item(g, item_id) ==
    IF g = NULL_GAME \/ item_id = NULL_STR THEN FALSE
    ELSE \E i \in 1..Len(g.player.inventory) :
             strcmp(g.player.inventory[i], item_id) = 0

\* a mutation of add_item_to_inventory: the capacity test is > instead of >=
add_item_to_inventory_off_by_one(g, item_id) ==
    IF g = NULL_GAME \/ item_id = NULL_STR THEN Returned(FALSE, "null", g)
    ELSE IF Len(g.player.inventory) > MAX_INVENTORY_ITEMS
         THEN Returned(FALSE, "inventory full", g)
    ELSE IF has_item(g, item_id) THEN Returned(FALSE, "duplicate", g)
    ELSE Returned(TRUE, "added",
             [g EXCEPT !.player.inventory =
                 Append(@, safe_strcpy(item_id, SIZEOF_INVENTORY_ENTRY))])

add_item_to_inventory(g, item_id) ==
    IF g = NULL_GAME \/ item_id = NULL_STR THEN Returned(FALSE, "null", g)
    ELSE IF Len(g.player.inventory) >= MAX_INVENTORY_ITEMS
         THEN Returned(FALSE, "inventory full", g)
    ELSE IF has_item(g, item_id) THEN Returned(FALSE, "duplicate", g)
    ELSE Returned(TRUE, "added",
             [g EXCEPT !.player.inventory =
                 Append(@, safe_strcpy(item_id, SIZEOF_INVENTORY_ENTRY))])

\* the inventory with entry i taken out and the later entries shifted down
shift_down(inventory, i) ==
    [j \in 1..(Len(inventory) - 1) |-> IF j < i THEN inventory[j] ELSE inventory[j + 1]]

\* a mutation of remove_item_from_inventory: entries are compared over the
\* 63 characters an entry can hold (strncmp) instead of as whole strings
remove_item_from_inventory_strncmp(g, item_id) ==
    IF g = NULL_GAME \/ item_id = NULL_STR THEN Returned(FALSE, "null", g)
    ELSE LET found == {i \in 1..Len(g.player.inventory) :
                         g.player.inventory[i] =
                             safe_strcpy(item_id, SIZEOF_INVENTORY_ENTRY)}
         IN  IF found = {} THEN Returned(FALSE, "absent", g)
             ELSE Returned(TRUE, "removed",
                      [g EXCEPT !.player.inventory = shift_down(@, Min(found))])

remove_item_from_inventory(g, item_id) ==
    IF g = NULL_GAME \/ item_id = NULL_STR THEN Returned(FALSE, "null", g)
    ELSE LET found == {i \in 1..Len(g.player.inventory) :
                         strcmp(g.player.inventory[i], item_id) = 0}
         IN  IF found = {} THEN Returned(FALSE, "absent", g)
             ELSE Returned(TRUE, "removed",
                      [g EXCEPT !.player.inventory = shift_down(@, Min(found))])

(***************************************************************************)
(* Inputs: the strings the calls are tried with and the documents loaded   *)
(***************************************************************************)
north == <<110, 111, 114, 116, 104>>     \* "north"
NORTH == <<78, 79, 82, 84, 72>>          \* "NORTH"
south == <<115, 111, 117, 116, 104>>     \* "south"
SOUTH == <<83, 79, 85, 84, 72>>          \* "SOUTH"
up == <<117, 112>>                       \* "up"
LocA == <<65>>                           \* "A"
LocB == <<66>>                           \* "B"
LocC == <<67>>                           \* "C"
LocZ == <<90>>                           \* "Z", never a key of "locations"
start == <<115, 116, 97, 114, 116>>      \* "start"
room2 == <<114, 111, 111, 109, 50>>      \* "room2"
key == <<107, 101, 121>>                 \* "key"

\* "ddd...": a direction k characters longer than Exit.direction can hold
LongDirection(k) == Rep(100, SIZEOF_DIRECTION - 1 + k)
\* "aaa...": a location id k characters longer than Location.id can hold
LongId(k) == Rep(97, SIZEOF_ID - 1 + k)
\* "iii...": an item id k characters longer than an inventory entry can hold
LongItem(k) == Rep(105, SIZEOF_INVENTORY_ENTRY - 1 + k)
\* "f01", "f02", ...: item ids that only documents mention
Filler(n) == <<102, 48 + (n \div 10), 48 + (n % 10)>>

Directions == {north, NORTH, south, up} \cup {LongDirection(k) : k \in 0..Overlong}
Items == {key} \cup {LongItem(k) : k \in 0..Overlong}

Exits(ms) == KV("exits", JObj(ms))

\* A: two exits that match "north", a dangling exit before a sound one that
\* both match "south", and an exit whose key does not fit Exit.direction
MazeLocations ==
    JObj(<<KV(LocA, JObj(<<KV("title", JStr(LocA)),
                           Exits(<<KV(north, JStr(LocB)), KV(NORTH, JStr(LocC)),
                                   KV(south, JStr(LocZ)), KV(SOUTH, JStr(LocB)),
                                   KV(up, JInt(1)),
                                   KV(LongDirection(Overlong), JStr(LocC))>>)>>)),
           KV(LocB, JObj(<<Exits(<<KV(SOUTH, JStr(LocA)), KV(north, JStr(LocB))>>)>>)),
           KV(LocC, JObj(<<KV("visited", JBool(TRUE)), KV("exits", JNull)>>))>>)

\* the end-to-end world: start --north--> room2
TwoRoomLocations ==
    JObj(<<KV(start, JObj(<<Exits(<<KV(north, JStr(room2))>>)>>)),
           KV(room2, JObj(<<>>))>>)

\* keys that do not fit Location.id, and a key whose value is null
LongIdLocations ==
    JObj([k \in 1..(Overlong + 1) |->
             KV(LongId(k - 1), JObj(<<Exits(<<KV(north, JStr(LocB))>>)>>))]
         \o <<KV(LocC, JNull),
              KV(LocB, JObj(<<Exits(<<KV(south, JStr(LongId(Overlong)))>>)>>))>>)

\* more string entries than the inventory holds, with a non-string between
FullInventory ==
    JArr(<<JStr(key), JInt(7)>>
         \o [n \in 1..(MAX_INVENTORY_ITEMS - 1 + OverCapacity) |-> JStr(Filler(n))])

\* an inventory that lists "key" twice and leaves two entries free
DuplicateInventory ==
    JArr(<<JStr(key), JStr(key)>>
         \o [n \in 1..(MAX_INVENTORY_ITEMS - 4) |-> JStr(Filler(n))])

File(json) == [readable |-> TRUE, json |-> json]

\* the end-to-end document: no player block
TwoRoomDocument ==
    File(JObj(<<KV("start_location", JStr(start)), KV("locations", TwoRoomLocations)>>))

Documents ==
    { File(JObj(<<KV("start_location", JStr(LocA)), KV("locations", MazeLocations),
                  KV("player", JObj(<<KV("inventory", FullInventory)>>))>>)),
      File(JObj(<<KV("start_location", JStr(LocA)), KV("locations", MazeLocations),
                  KV("player", JObj(<<KV("current_location", JStr(LocB)),
                                      KV("inventory", DuplicateInventory)>>))>>)),
      File(JObj(<<KV("start_location", JStr(start)),
                  KV("locations", TwoRoomLocations)>>)),
      File(JObj(<<KV("start_location", JStr(LongId(Overlong))),
                  KV("locations", LongIdLocations),
                  KV("player", JObj(<<KV("current_location", JInt(5)),
                                      KV("inventory", FullInventory)>>))>>)),
      File(JObj(<<KV("start_location", JStr(start)), KV("locations", TwoRoomLocations),
                  KV("player", JObj(<<KV("current_location", JStr(LocZ)),
                                      KV("inventory", DuplicateInventory)>>))>>)),
      File(JObj(<<KV("locations", JArr(<<>>)), KV("player", JNull)>>)),
      File(JArr(<<>>)),
      File(JNull),
      File(JInvalid),
      [readable |-> FALSE, json |-> JInvalid] }

(***************************************************************************)
(* The program: main loads the document, then the world model is called    *)
(***************************************************************************)
\* GameRenderer renderer = {0}, then init_renderer sets running
init_renderer == [input_buffer |-> <<>>, input_length |-> 0, running |-> TRUE]

Call(name, arg, r) == [name |-> name, arg |-> arg, ret |-> r.ret, why |-> r.why]

Init ==
    /\ document \in Documents
    /\ game = load_game(document)
    /\ op = [name |-> "load_game", arg |-> <<>>,
             ret |-> load_game(document) # NULL_GAME,
             why |-> IF load_game(document) # NULL_GAME THEN "loaded" ELSE "failed"]
    /\ pre = NULL_GAME
    /\ calls = 0
    /\ renderer = init_renderer
    /\ pc = IF load_game(document) # NULL_GAME THEN "poll" ELSE "failed"

MovePlayer(direction) ==
    /\ calls < MaxCalls
    /\ game' = move_player(game, direction).game
    /\ op' = Call("move_player", direction, move_player(game, direction))
    /\ pre' = game
    /\ calls' = calls + 1
    /\ UNCHANGED <<document, renderer, pc>>

AddItemToInventory(item_id) ==
    /\ calls < MaxCalls
    /\ game' = add_item_to_inventory(game, item_id).game
    /\ op' = Call("add_item_to_inventory", item_id, add_item_to_inventory(game, item_id))
    /\ pre' = game
    /\ calls' = calls + 1
    /\ UNCHANGED <<document, renderer, pc>>

RemoveItemFromInventory(item_id) ==
    /\ calls < MaxCalls
    /\ game' = remove_item_from_inventory(game, item_id).game
    /\ op' = Call("remove_item_from_inventory", item_id,
                  remove_item_from_inventory(game, item_id))
    /\ pre' = game
    /\ calls' = calls + 1
    /\ UNCHANGED <<document, renderer, pc>>

Next ==
    \/ \E direction \in Directions : MovePlayer(direction)
    \/ \E item_id \in Items : AddItemToInventory(item_id)
    \/ \E item_id \in Items : RemoveItemFromInventory(item_id)

Spec == Init /\ [][Next]_vars

(***************************************************************************)
(* The flag operations and the requirement check, as functions of a        *)
(* GameState.  load_game fills no flag table and no flags_required, so     *)
(* the GameStates they are called on are built here: a loaded world whose  *)
(* flag tables and required flags are set as a caller of the engine sets   *)
(* them.  A stored name fits its char[64] and a table holds at most        *)
(* MAX_FLAGS entries.                                                      *)
(***************************************************************************)
lit == <<108, 105, 116>>                 \* "lit"
open == <<111, 112, 101, 110>>           \* "open"
\* "nnn...": a flag name k characters longer than a table entry can hold
LongFlag(k) == Rep(110, SIZEOF_FLAG_NAME - 1 + k)
\* "g001", "g002", ...: flag names that only fill a table
FlagFiller(n) == <<103, 48 + (n \div 100), 48 + ((n \div 10) % 10), 48 + (n % 10)>>

FlagNames == {lit, open} \cup {LongFlag(k) : k \in 0..Overlong}

Flag(name, value) == [name |-> name, value |-> value]

\* <<player flags, game flags>>: both empty; a flag only in the game table;
\* a name in both tables with different values; a player table with one
\* entry free; a game table that holds the longest name that fits
FlagTables ==
    { <<(<<>>), (<<>>)>>,
      <<(<<>>), <<Flag(open, TRUE)>>>>,
      <<(<<Flag(lit, FALSE)>>), <<Flag(lit, TRUE), Flag(open, FALSE)>>>>,
      <<[n \in 1..(MAX_FLAGS - 1) |-> Flag(FlagFiller(n), n % 2 = 0)], (<<>>)>>,
      <<(<<>>), <<Flag(LongFlag(0), TRUE)>>>> }

\* B requires lit; C requires open and not lit; A requires nothing
RequiredFlags(id) ==
    IF id = LocB THEN <<Flag(lit, TRUE)>>
    ELSE IF id = LocC THEN <<Flag(open, TRUE), Flag(lit, FALSE)>>
    ELSE <<>>

FlagsDocument ==
    File(JObj(<<KV("start_location", JStr(LocA)), KV("locations", MazeLocations)>>))

\* flags_set of a location: B sets open
SetFlags(id) == IF id = LocB THEN <<Flag(open, TRUE)>> ELSE <<>>

\* g with its flag tables and the required flags and set flags of its
\* locations filled in
WithFlags(g, player_flags, game_flags) ==
    [g EXCEPT !.player.flags = player_flags,
              !.game_flags = game_flags,
              !.locations = [i \in 1..Len(g.locations) |->
                                [g.locations[i] EXCEPT
                                    !.flags_required = RequiredFlags(g.locations[i].id),
                                    !.flags_set = SetFlags(g.locations[i].id)]]]

InitFlags ==
    /\ document = FlagsDocument
    /\ \E tables \in FlagTables :
           game = WithFlags(load_game(FlagsDocument), tables[1], tables[2])
    /\ op = [name |-> "load_game", arg |-> <<>>, ret |-> TRUE, why |-> "flags set"]
    /\ pre = NULL_GAME
    /\ calls = 0
    /\ renderer = init_renderer
    /\ pc = "poll"

SetFlag(flag_name, value) ==
    /\ calls < MaxFlagCalls
    /\ game' = set_flag(game, flag_name, value).game
    /\ op' = [name |-> "set_flag", arg |-> flag_name, value |-> value,
              ret |-> set_flag(game, flag_name, value).ret,
              why |-> set_flag(game, flag_name, value).why]
    /\ pre' = game
    /\ calls' = calls + 1
    /\ UNCHANGED <<document, renderer, pc>>

GetFlag(flag_name) ==
    /\ calls < MaxFlagCalls
    /\ game' = get_flag_call(game, flag_name).game
    /\ op' = [name |-> "get_flag", arg |-> flag_name,
              ret |-> get_flag_call(game, flag_name).ret, why |-> "read"]
    /\ pre' = game
    /\ calls' = calls + 1
    /\ UNCHANGED <<document, renderer, pc>>

CheckLocationRequirements(location) ==
    /\ calls < MaxFlagCalls
    /\ op' = [name |-> "check_location_requirements", arg |-> location,
              ret |-> check_location_requirements(game, location), why |-> "read"]
    /\ pre' = game
    /\ calls' = calls + 1
    /\ UNCHANGED <<document, game, renderer, pc>>

NextFlags ==
    \/ \E flag_name \in FlagNames, value \in BOOLEAN : SetFlag(flag_name, value)
    \/ \E flag_name \in FlagNames : GetFlag(flag_name)
    \/ \E location \in 0..Len(game.locations) : CheckLocationRequirements(location)
    \/ \E direction \in {north, SOUTH, LongDirection(0)} : MovePlayer(direction)

SpecFlags == InitFlags /\ [][NextFlags]_vars

(***************************************************************************)
(* The capacities: a document that holds more of everything than the       *)
(* arrays of GameState do, loaded, with a player flag table that has one   *)
(* entry free.                                                             *)
(***************************************************************************)
\* location A with more exits and items than a Location holds, then more
\* locations than the table holds, and more item definitions than it holds
CrowdedDocument ==
    File(JObj(<<
        KV("start_location", JStr(LocA)),
        KV("locations",
           JObj(<<KV(LocA,
                     JObj(<<Exits([n \in 1..(MAX_EXITS + OverCapacity) |->
                                      KV(FlagFiller(n), JStr(LocA))]),
                            KV("items",
                               JArr([n \in 1..(MAX_ITEMS + OverCapacity) |->
                                        JStr(Filler(n))]))>>))>>
                \o [n \in 1..(MAX_LOCATIONS - 1 + OverCapacity) |->
                       KV(FlagFiller(n), JObj(<<>>))])),
        KV("inventory_items",
           JObj([n \in 1..(MAX_INVENTORY_ITEMS + OverCapacity) |->
                    KV(Filler(n), JObj(<<KV("takeable", JBool(TRUE))>>))]))>>))

InitBounds ==
    /\ document = CrowdedDocument
    /\ game = WithFlags(load_game(CrowdedDocument),
                        [n \in 1..(MAX_FLAGS - 1) |-> Flag(FlagFiller(n), n % 2 = 0)],
                        <<>>)
    /\ op = [name |-> "load_game", arg |-> <<>>, ret |-> TRUE, why |-> "flags set"]
    /\ pre = NULL_GAME
    /\ calls = 0
    /\ renderer = init_renderer
    /\ pc = "poll"

NextBounds ==
    \/ \E flag_name \in FlagNames, value \in BOOLEAN : SetFlag(flag_name, value)
    \/ \E flag_name \in FlagNames : GetFlag(flag_name)

SpecBounds == InitBounds /\ [][NextBounds]_vars

(***************************************************************************)
(* The event loop of main and its command interpreter handle_input.  An    *)
(* SDL_TEXTINPUT event carries a text of up to 31 bytes; the texts tried   *)
(* are the words and letters the claims' command lines are made of.        *)
(***************************************************************************)
go == <<103, 111>>                                    \* "go"
go_ == <<103, 111, 32>>                               \* "go "
GO_ == <<71, 79, 32>>                                 \* "GO "
move_ == <<109, 111, 118, 101, 32>>                   \* "move "
look == <<108, 111, 111, 107>>                        \* "look"
letter_l == <<108>>                                     \* "l"
inventory == <<105, 110, 118, 101, 110, 116, 111, 114, 121>>   \* "inventory"
letter_i == <<105>>                                     \* "i"
help == <<104, 101, 108, 112>>                        \* "help"
quit == <<113, 117, 105, 116>>                        \* "quit"
exit == <<101, 120, 105, 116>>                        \* "exit"

Texts ==
    {go, go_, GO_, move_, north, south, look, letter_l, inventory, letter_i, help,
     quit, exit, go_ \o north}

\* 0 when the two strings are equal over their first n characters
strncmp(a, b, n) ==
    IF SubSeq(a, 1, Min({n, Len(a)})) = SubSeq(b, 1, Min({n, Len(b)})) THEN 0 ELSE 1

\* the index of the first character c of s, or 0 (NULL)
strchr(s, c) ==
    IF \E k \in 1..Len(s) : s[k] = c THEN Min({k \in 1..Len(s) : s[k] = c}) ELSE 0

\* s + n: the string from the character after index n on
StringFrom(s, n) == SubSeq(s, n + 1, Len(s))

Handled(g, r, why, direction, ret) ==
    [game |-> g, renderer |-> r, why |-> why, direction |-> direction, ret |-> ret]

\* a mutation of handle_input: "quit" and "exit" are matched as prefixes
handle_input_quit_prefix(g, r, input) ==
    IF g = NULL_GAME \/ input = NULL_STR THEN Handled(g, r, "null", NULL_STR, FALSE)
    ELSE IF strncmp(input, go_, 3) = 0 \/ strncmp(input, move_, 5) = 0
    THEN Handled(move_player(g, StringFrom(input, strchr(input, 32))).game, r, "move",
                 StringFrom(input, strchr(input, 32)),
                 move_player(g, StringFrom(input, strchr(input, 32))).ret)
    ELSE IF strcmp(input, look) = 0 \/ strcmp(input, letter_l) = 0
    THEN Handled(g, r, "look", NULL_STR, FALSE)
    ELSE IF strcmp(input, inventory) = 0 \/ strcmp(input, letter_i) = 0
    THEN Handled(g, r, "inventory", NULL_STR, FALSE)
    ELSE IF strcmp(input, help) = 0
    THEN Handled(g, r, "help", NULL_STR, FALSE)
    ELSE IF strncmp(input, quit, 4) = 0 \/ strncmp(input, exit, 4) = 0
    THEN Handled(g, [r EXCEPT !.running = FALSE], "quit", NULL_STR, FALSE)
    ELSE Handled(g, r, "unknown", NULL_STR, FALSE)

\* a mutation of handle_input: the direction is always input + 3
handle_input_skip_three(g, r, input) ==
    IF g = NULL_GAME \/ input = NULL_STR THEN Handled(g, r, "null", NULL_STR, FALSE)
    ELSE IF strncmp(input, go_, 3) = 0 \/ strncmp(input, move_, 5) = 0
    THEN Handled(move_player(g, StringFrom(input, 3)).game, r, "move",
                 StringFrom(input, 3), move_player(g, StringFrom(input, 3)).ret)
    ELSE IF strcmp(input, look) = 0 \/ strcmp(input, letter_l) = 0
    THEN Handled(g, r, "look", NULL_STR, FALSE)
    ELSE IF strcmp(input, inventory) = 0 \/ strcmp(input, letter_i) = 0
    THEN Handled(g, r, "inventory", NULL_STR, FALSE)
    ELSE IF strcmp(input, help) = 0
    THEN Handled(g, r, "help", NULL_STR, FALSE)
    ELSE IF strcmp(input, quit) = 0 \/ strcmp(input, exit) = 0
    THEN Handled(g, [r EXCEPT !.running = FALSE], "quit", NULL_STR, FALSE)
    ELSE Handled(g, r, "unknown", NULL_STR, FALSE)

\* a mutation of handle_input: a line that no branch recognizes is tried as
\* a direction
handle_input_bare_direction(g, r, input) ==
    IF g = NULL_GAME \/ input = NULL_STR THEN Handled(g, r, "null", NULL_STR, FALSE)
    ELSE IF strncmp(input, go_, 3) = 0 \/ strncmp(input, move_, 5) = 0
    THEN Handled(move_player(g, StringFrom(input, strchr(input, 32))).game, r, "move",
                 StringFrom(input, strchr(input, 32)),
                 move_player(g, StringFrom(input, strchr(input, 32))).ret)
    ELSE IF strcmp(input, look) = 0 \/ strcmp(input, letter_l) = 0
    THEN Handled(g, r, "look", NULL_STR, FALSE)
    ELSE IF strcmp(input, inventory) = 0 \/ strcmp(input, letter_i) = 0
    THEN Handled(g, r, "inventory", NULL_STR, FALSE)
    ELSE IF strcmp(input, help) = 0
    THEN Handled(g, r, "help", NULL_STR, FALSE)
    ELSE IF strcmp(input, quit) = 0 \/ strcmp(input, exit) = 0
    THEN Handled(g, [r EXCEPT !.running = FALSE], "quit", NULL_STR, FALSE)
    ELSE Handled(move_player(g, input).game, r, "unknown", NULL_STR, FALSE)

\* why is the branch taken; direction and ret are the argument and the
\* return value of move_player when it is called
handle_input(g, r, input) ==
    IF g = NULL_GAME \/ input = NULL_STR THEN Handled(g, r, "null", NULL_STR, FALSE)
    ELSE IF strncmp(input, go_, 3) = 0 \/ strncmp(input, move_, 5) = 0
    THEN Handled(move_player(g, StringFrom(input, strchr(input, 32))).game, r, "move",
                 StringFrom(input, strchr(input, 32)),
                 move_player(g, StringFrom(input, strchr(input, 32))).ret)
    ELSE IF strcmp(input, look) = 0 \/ strcmp(input, letter_l) = 0
    THEN Handled(g, r, "look", NULL_STR, FALSE)
    ELSE IF strcmp(input, inventory) = 0 \/ strcmp(input, letter_i) = 0
    THEN Handled(g, r, "inventory", NULL_STR, FALSE)
    ELSE IF strcmp(input, help) = 0
    THEN Handled(g, r, "help", NULL_STR, FALSE)
    ELSE IF strcmp(input, quit) = 0 \/ strcmp(input, exit) = 0
    THEN Handled(g, [r EXCEPT !.running = FALSE], "quit", NULL_STR, FALSE)
    ELSE Handled(g, r, "unknown", NULL_STR, FALSE)

\* an event main takes from SDL_PollEvent; running is renderer.running as
\* it was when the event was taken, and quit_line tells that a line handled
\* before this event was "quit" or "exit"
Event(name, arg, why, direction, ret) ==
    [name |-> name, arg |-> arg, why |-> why, direction |-> direction, ret |-> ret,
     running |-> renderer.running,
     quit_line |-> op.name # "load_game" /\ (op.quit_line \/ op.why = "quit")]

\* e.type == SDL_QUIT
SdlQuit ==
    /\ pc = "poll" /\ calls < MaxEvents
    /\ renderer' = [renderer EXCEPT !.running = FALSE]
    /\ op' = Event("SDL_QUIT", <<>>, "event", NULL_STR, FALSE)
    /\ pre' = game
    /\ calls' = calls + 1
    /\ UNCHANGED <<document, game, pc>>

\* SDL_KEYDOWN of SDLK_RETURN: a line that is not empty goes to handle_input
\* and the input buffer is emptied
KeyReturn ==
    /\ pc = "poll" /\ calls < MaxEvents
    /\ IF renderer.input_length > 0
       THEN /\ game' = handle_input(game, renderer, renderer.input_buffer).game
            /\ renderer' =
                   [handle_input(game, renderer, renderer.input_buffer).renderer
                       EXCEPT !.input_length = 0, !.input_buffer = <<>>]
            /\ op' = Event("handle_input", renderer.input_buffer,
                           handle_input(game, renderer, renderer.input_buffer).why,
                           handle_input(game, renderer, renderer.input_buffer).direction,
                           handle_input(game, renderer, renderer.input_buffer).ret)
       ELSE /\ op' = Event("SDLK_RETURN", <<>>, "empty line", NULL_STR, FALSE)
            /\ UNCHANGED <<game, renderer>>
    /\ pre' = game
    /\ calls' = calls + 1
    /\ UNCHANGED <<document, pc>>

\* SDL_KEYDOWN of SDLK_BACKSPACE
KeyBackspace ==
    /\ pc = "poll" /\ calls < MaxEvents
    /\ renderer' =
           IF renderer.input_length > 0
           THEN [renderer EXCEPT
                    !.input_length = renderer.input_length - 1,
                    !.input_buffer = SubSeq(renderer.input_buffer, 1,
                                            renderer.input_length - 1)]
           ELSE renderer
    /\ op' = Event("SDLK_BACKSPACE", <<>>, "event", NULL_STR, FALSE)
    /\ pre' = game
    /\ calls' = calls + 1
    /\ UNCHANGED <<document, game, pc>>

\* the bytes strcat(input_buffer, text) writes behind the last element of
\* input_buffer: what of the old line, text and the terminating NUL does not
\* fit the array
past_the_end(r, text) ==
    [k \in 1..(r.input_length + Len(text) + 1 - MAX_INPUT_LENGTH) |->
        (r.input_buffer \o text \o <<0>>)[MAX_INPUT_LENGTH + k]]

\* input_length, which follows input_buffer in GameRenderer, read back after
\* bytes were written over it from its lowest byte on
overwritten(n, bytes) ==
    LET byte(k) == IF k <= Len(bytes) THEN bytes[k]
                   ELSE (n \div (256 ^ (k - 1))) % 256
    IN  byte(1) + 256 * byte(2) + 65536 * byte(3) + 16777216 * byte(4)

\* what strcat(input_buffer, text); input_length += strlen(text) can leave.
\* input_buffer holds the characters before the terminating NUL, so the
\* array takes MAX_INPUT_LENGTH - 1 of them. A longer result was written
\* past the end of the array, which is undefined: input_length is then the
\* sum when the build added to the value it had read for the test, and the
\* overwritten value plus the length of text when it read the field again;
\* running, the field after it, is overwritten by the fifth byte.
strcat_input(r, text) ==
    IF r.input_length + Len(text) <= MAX_INPUT_LENGTH - 1
    THEN {[r EXCEPT !.input_buffer = r.input_buffer \o text,
                    !.input_length = r.input_length + Len(text)]}
    ELSE {[r EXCEPT !.input_buffer = r.input_buffer \o text,
                    !.input_length = n,
                    !.running = b] :
             n \in {r.input_length + Len(text),
                    overwritten(r.input_length, past_the_end(r, text)) + Len(text)},
             b \in {r.running} \cup
                   (IF Len(past_the_end(r, text)) >= 5
                    THEN {past_the_end(r, text)[5] # 0} ELSE {})}

\* SDL_TEXTINPUT; once input_buffer was written past its end nothing more is
\* said about the run
TextInputEvent(text) ==
    /\ pc = "poll" /\ calls < MaxEvents
    /\ IF renderer.input_length < MAX_INPUT_LENGTH - 1
       THEN renderer' \in strcat_input(renderer, text)
       ELSE renderer' = renderer
    /\ pc' = IF /\ renderer.input_length < MAX_INPUT_LENGTH - 1
                /\ renderer.input_length + Len(text) > MAX_INPUT_LENGTH - 1
             THEN "overflowed" ELSE pc
    /\ op' = Event("SDL_TEXTINPUT", text, "event", NULL_STR, FALSE)
    /\ pre' = game
    /\ calls' = calls + 1
    /\ UNCHANGED <<document, game>>

\* SDL_TEXTINPUT on a line that stays short
TextInput(text) ==
    /\ renderer.input_length + Len(text) <= MaxLine
    /\ TextInputEvent(text)

\* SDL_PollEvent returns 0: the inner loop ends, the frame is rendered and
\* while (renderer.running) is tested; cleanup_game and return 0 follow it
PollEmpty ==
    /\ pc = "poll"
    /\ pc' = IF renderer.running THEN "poll" ELSE "exited"
    /\ UNCHANGED <<document, game, op, pre, calls, renderer>>

NextMain ==
    \/ SdlQuit
    \/ KeyReturn
    \/ KeyBackspace
    \/ \E text \in Texts : TextInput(text)
    \/ PollEmpty

SpecMain == Init /\ [][NextMain]_vars

(***************************************************************************)
(* The input line when it is nearly full: main with a line typed before,   *)
(* taking text events of one and of two bytes, backspaces and returns.     *)
(***************************************************************************)
letter_x == <<120>>                                   \* "x"
e_acute == <<195, 169>>                               \* "é" in UTF-8

\* the lengths of the line typed before: none, and up to the longest the
\* array takes
TypedBefore == {0} \cup {MAX_INPUT_LENGTH - 1 - n : n \in 0..NearFull}

InitInput ==
    /\ document = TwoRoomDocument
    /\ game = load_game(document)
    /\ op = [name |-> "load_game", arg |-> <<>>, ret |-> TRUE, why |-> "loaded"]
    /\ pre = NULL_GAME
    /\ calls = 0
    /\ \E n \in TypedBefore :
           renderer = [init_renderer EXCEPT !.input_buffer = Rep(120, n),
                                            !.input_length = n]
    /\ pc = "poll"

NextInput ==
    \/ \E text \in {letter_x, e_acute} : TextInputEvent(text)
    \/ KeyBackspace
    \/ KeyReturn
    \/ PollEmpty

SpecInput == InitInput /\ [][NextInput]_vars

(***************************************************************************)
(* The loaders and the lookups, called by a program that links the engine: *)
(* the document is loaded by one of the two load_game variants, then the   *)
(* world model is queried.                                                 *)
(***************************************************************************)
\* documents tried on the loaders, besides those of Documents: a start
\* location that the world does not hold, and a player location that does
\* not fit Player.current_location
LoaderDocuments ==
    Documents \cup
    { File(JObj(<<KV("start_location", JStr(LocZ)), KV("locations", TwoRoomLocations)>>)),
      File(JObj(<<KV("start_location", JStr(LocA)), KV("locations", MazeLocations),
                  KV("player", JObj(<<KV("current_location", JStr(LongId(Overlong)))>>))>>)),
      File(JStr(start)) }

LocationIds == {LocA, LocZ, start, <<>>} \cup {LongId(k) : k \in 0..Overlong}

InitLoad ==
    /\ document \in LoaderDocuments
    /\ game = NULL_GAME
    /\ op = [name |-> "main", arg |-> <<>>, ret |-> FALSE, why |-> "started"]
    /\ pre = NULL_GAME
    /\ calls = 0
    /\ renderer = init_renderer
    /\ pc = "start"

\* game_state = load_game(argv[1])
LoadGame ==
    /\ pc = "start"
    /\ game' = load_game(document)
    /\ op' = [name |-> "load_game", arg |-> <<>>,
              ret |-> load_game(document) # NULL_GAME,
              why |-> IF load_game(document) # NULL_GAME THEN "loaded" ELSE "failed"]
    /\ pc' = IF load_game(document) # NULL_GAME THEN "poll" ELSE "failed"
    /\ pre' = game
    /\ UNCHANGED <<document, calls, renderer>>

\* load_game as the engine built against cJSON has it
LoadGameCJson ==
    /\ pc = "start"
    /\ game' = load_game_cjson(document)
    /\ op' = [name |-> "load_game (cJSON)", arg |-> <<>>,
              ret |-> load_game_cjson(document) # NULL_GAME,
              why |-> IF load_game_cjson(document) # NULL_GAME THEN "loaded" ELSE "failed"]
    /\ pc' = IF load_game_cjson(document) # NULL_GAME THEN "poll" ELSE "failed"
    /\ pre' = game
    /\ UNCHANGED <<document, calls, renderer>>

GetLocationById(location_id) ==
    /\ pc # "start" /\ calls < MaxCalls
    /\ op' = [name |-> "get_location_by_id", arg |-> location_id,
              ret |-> get_location_by_id(game, location_id), why |-> "read"]
    /\ pre' = game
    /\ calls' = calls + 1
    /\ UNCHANGED <<document, game, renderer, pc>>

GetCurrentLocation ==
    /\ pc # "start" /\ calls < MaxCalls
    /\ op' = [name |-> "get_current_location", arg |-> <<>>,
              ret |-> get_current_location(game), why |-> "read"]
    /\ pre' = game
    /\ calls' = calls + 1
    /\ UNCHANGED <<document, game, renderer, pc>>

HasItem(item_id) ==
    /\ pc # "start" /\ calls < MaxCalls
    /\ op' = [name |-> "has_item", arg |-> item_id,
              ret |-> has_item(game, item_id), why |-> "read"]
    /\ pre' = game
    /\ calls' = calls + 1
    /\ UNCHANGED <<document, game, renderer, pc>>

NextLoad ==
    \/ LoadGame
    \/ LoadGameCJson
    \/ \E location_id \in LocationIds : GetLocationById(location_id)
    \/ GetCurrentLocation
    \/ \E item_id \in Items : HasItem(item_id)
    \/ \E item_id \in Items : pc # "start" /\ RemoveItemFromInventory(item_id)
    \/ \E flag_name \in FlagNames : pc # "start" /\ GetFlag(flag_name)
    \/ \E direction \in Directions : pc # "start" /\ MovePlayer(direction)

SpecLoad == InitLoad /\ [][NextLoad]_vars

(***************************************************************************)
(* Vocabulary of the claims, stated on the data and not through the        *)
(* operators above                                                         *)
(***************************************************************************)
FoldCase(s) == [i \in 1..Len(s) |-> IF s[i] \in 65..90 THEN s[i] + 32 ELSE s[i]]
EqualIgnoringCase(a, b) == FoldCase(a) = FoldCase(b)

\* id names a location of the table of g
Resolves(g, id) ==
    g # NULL_GAME /\ \E i \in 1..Len(g.locations) : g.locations[i].id = id

\* the location the player of g stands in: the first one with the player's id
Standing(g) ==
    IF g # NULL_GAME /\ Resolves(g, g.player.current_location)
    THEN Min({i \in 1..Len(g.locations) : g.locations[i].id = g.player.current_location})
    ELSE 0

Holds(g, item_id) ==
    g # NULL_GAME /\ \E i \in 1..Len(g.player.inventory) : g.player.inventory[i] = item_id

Moved == op.name = "move_player"
Added == op.name = "add_item_to_inventory"
Removed == op.name = "remove_item_from_inventory"

\* the exits of the location the player stood in when the last call started
PreExits == IF Standing(pre) = 0 THEN <<>> ELSE pre.locations[Standing(pre)].exits
\* those of them that match the argument of the last call ignoring case
PreMatches == {i \in 1..Len(PreExits) : EqualIgnoringCase(PreExits[i].direction, op.arg)}
\* the earliest of them
PreFirst == PreExits[Min(PreMatches)]

(***************************************************************************)
(* Claims                                                                  *)
(***************************************************************************)

\* C1: first-match policy. A successful move_player lands on the target of
\* the earliest exit, in stored order, whose direction matches the request,
\* also when two or more exits match.
C1_FirstMatchWins ==
    (Moved /\ op.ret) =>
        /\ PreMatches # {}
        /\ game.player.current_location = PreFirst.target_location

\* C1 witness: a successful move from a location with two matching exits
\* that lead to different locations.
C1_Witness ==
    /\ Moved /\ op.ret
    /\ \E i, j \in PreMatches :
           i < j /\ PreExits[i].target_location # PreExits[j].target_location

\* C2 as claimed: move_player(d) succeeds if and only if the current
\* location has an exit whose direction equals d ignoring letter case.
C2_SucceedsIffExitMatches ==
    Moved => (op.ret <=> PreMatches # {})

\* C2 as amended: move_player(d) succeeds if and only if the current
\* location has an exit whose direction equals d ignoring letter case and
\* the target of the first such exit names a location of the table.
C2_SucceedsIffFirstMatchResolves ==
    Moved => (op.ret <=> (PreMatches # {} /\ Resolves(pre, PreFirst.target_location)))

\* C2 witness: a move that succeeds through an exit whose stored direction
\* differs from the request in letter case.
C2_Witness ==
    Moved /\ op.ret /\ PreMatches # {} /\ PreFirst.direction # op.arg

\* C3: when the exit move_player selects has a target that names no
\* location, the call fails and the player's current location is unchanged.
C3_DanglingExitFails ==
    (Moved /\ PreMatches # {} /\ ~Resolves(pre, PreFirst.target_location)) =>
        /\ ~op.ret
        /\ game.player.current_location = pre.player.current_location

\* C3 witness: move_player was called for a direction whose first matching
\* exit dangles.
C3_Witness ==
    Moved /\ PreMatches # {} /\ ~Resolves(pre, PreFirst.target_location)

\* C4: a failing move_player, add_item_to_inventory or
\* remove_item_from_inventory leaves the whole game state as it was.
C4_FailureChangesNothing ==
    ((Moved \/ Added \/ Removed) /\ ~op.ret) => game = pre

\* C4 witness: a failing call on a loaded game whose inventory is not empty
\* (here: a move through a dangling exit).
C4_Witness ==
    /\ Moved /\ ~op.ret /\ op.why = "dangling exit"
    /\ pre # NULL_GAME /\ pre.player.inventory # <<>>

\* C5: after a successful move_player into L, L.visited is true, and no
\* later call (a further move into L included) makes a visited bit false.
C5_VisitedSticks ==
    /\ (Moved /\ op.ret) => (Standing(game) # 0 /\ game.locations[Standing(game)].visited)
    /\ (op.name # "load_game" /\ pre # NULL_GAME) =>
           \A i \in 1..Len(pre.locations) :
               pre.locations[i].visited => game.locations[i].visited

\* C5 witness: a successful move into a location that was already visited.
C5_Witness ==
    /\ Moved /\ op.ret
    /\ pre.locations[Standing(game)].visited

\* C6 as claimed: right after load_game the location the player stands in
\* is marked visited.
C6_StartVisitedAfterLoad ==
    (op.name = "load_game" /\ Standing(game) # 0) => game.locations[Standing(game)].visited

\* C7 as claimed: an add that finds the item already held fails, and after
\* a successful add of an item the same add, made again, fails.
C7_SecondAddFails ==
    /\ (Added /\ Holds(pre, op.arg)) => ~op.ret
    /\ (Added /\ op.ret) => ~add_item_to_inventory(game, op.arg).ret

\* C8: the inventory count stays between 0 and MAX_INVENTORY_ITEMS, and an
\* add attempted at capacity fails.
C8_InventoryWithinCapacity ==
    /\ game # NULL_GAME =>
           Len(game.player.inventory) \in 0..MAX_INVENTORY_ITEMS
    /\ (Added /\ pre # NULL_GAME /\ Len(pre.player.inventory) >= MAX_INVENTORY_ITEMS) =>
           ~op.ret

\* C8 witness: an add was attempted on a full inventory.
C8_Witness ==
    Added /\ pre # NULL_GAME /\ Len(pre.player.inventory) = MAX_INVENTORY_ITEMS

\* C9 as claimed: no item id occurs more than once in the inventory.
C9_InventoryIsSet ==
    game # NULL_GAME =>
        \A i, j \in 1..Len(game.player.inventory) :
            i # j => game.player.inventory[i] # game.player.inventory[j]

\* C10: remove_item_from_inventory called with an item id that is not in
\* the inventory reports failure.
C10_RemoveAbsentFails ==
    (Removed /\ ~Holds(pre, op.arg)) => ~op.ret

\* C10 witness: a removal was asked for an id that is not in the inventory
\* although the 63 characters of it that an entry can hold are.
C10_Witness ==
    /\ Removed /\ ~Holds(pre, op.arg)
    /\ Len(op.arg) >= SIZEOF_INVENTORY_ENTRY
    /\ Holds(pre, SubSeq(op.arg, 1, SIZEOF_INVENTORY_ENTRY - 1))

(***************************************************************************)
(* Claims about the flags                                                  *)
(***************************************************************************)
InTable(flags, name) == \E i \in 1..Len(flags) : flags[i].name = name
\* the value of the first entry of a table that carries the name
ValueIn(flags, name) == flags[Min({i \in 1..Len(flags) : flags[i].name = name})].value
Names(flags) == [i \in 1..Len(flags) |-> flags[i].name]
\* the value the flag precedence rule gives name in g
FlagValue(g, name) ==
    IF InTable(g.player.flags, name) THEN ValueIn(g.player.flags, name)
    ELSE IF InTable(g.game_flags, name) THEN ValueIn(g.game_flags, name)
    ELSE FALSE
\* every (flag, required value) pair of the location is met in g
RequirementsMet(g, location) ==
    \A i \in 1..Len(g.locations[location].flags_required) :
        FlagValue(g, g.locations[location].flags_required[i].name) =
            g.locations[location].flags_required[i].value
\* each name is in at most one table, and at most once in it
FlagNamesUnique(g) ==
    /\ \A i, j \in 1..Len(g.player.flags) :
           i # j => g.player.flags[i].name # g.player.flags[j].name
    /\ \A i, j \in 1..Len(g.game_flags) :
           i # j => g.game_flags[i].name # g.game_flags[j].name
    /\ \A i \in 1..Len(g.player.flags) : ~InTable(g.game_flags, g.player.flags[i].name)

FlagRead == op.name = "get_flag"
FlagSet == op.name = "set_flag"
Checked == op.name = "check_location_requirements"

\* C11: get_flag returns the player-scope value when the name is in the
\* player table, otherwise the game-scope value when it is in the game
\* table, otherwise false; a name in both tables reads as the player's.
C11_GetFlagPrecedence ==
    FlagRead => op.ret = FlagValue(pre, op.arg)

\* C11 witness: get_flag read a name that both tables hold with different
\* values.
C11_Witness ==
    /\ FlagRead
    /\ InTable(pre.player.flags, op.arg) /\ InTable(pre.game_flags, op.arg)
    /\ ValueIn(pre.player.flags, op.arg) # ValueIn(pre.game_flags, op.arg)

\* C12: set_flag on a flag that only the game table holds writes the value
\* into the game entry and leaves the player table (names, values, count)
\* as it was.
C12_SetFlagKeepsGameScope ==
    (FlagSet /\ InTable(pre.game_flags, op.arg) /\ ~InTable(pre.player.flags, op.arg)) =>
        /\ game.player.flags = pre.player.flags
        /\ Names(game.game_flags) = Names(pre.game_flags)
        /\ ValueIn(game.game_flags, op.arg) = op.value

\* C12 witness: set_flag changed the value of a flag only the game table
\* holds.
C12_Witness ==
    /\ FlagSet /\ InTable(pre.game_flags, op.arg) /\ ~InTable(pre.player.flags, op.arg)
    /\ ValueIn(pre.game_flags, op.arg) # op.value

\* C13 as claimed: set_flag(name, value) with a name absent from both
\* tables adds a player entry, and get_flag(name) then returns value.
C13_SetAbsentThenGet ==
    (FlagSet /\ ~InTable(pre.player.flags, op.arg) /\ ~InTable(pre.game_flags, op.arg)) =>
        /\ Len(game.player.flags) = Len(pre.player.flags) + 1
        /\ get_flag(game, op.arg) = op.value

\* C14 as claimed: a call made in a state where each flag name is in at
\* most one table, and at most once in it, leaves a state of that kind (so
\* every state reached from such a state is of that kind).
C14_FlagNamesStayUnique ==
    (pre # NULL_GAME /\ FlagNamesUnique(pre)) => FlagNamesUnique(game)

\* C15: no call removes a flag entry or moves it to the other table: each
\* table keeps the names it had, in their places.
C15_FlagScopeFixed ==
    pre # NULL_GAME =>
        /\ Len(game.player.flags) >= Len(pre.player.flags)
        /\ SubSeq(Names(game.player.flags), 1, Len(pre.player.flags)) =
               Names(pre.player.flags)
        /\ Len(game.game_flags) >= Len(pre.game_flags)
        /\ SubSeq(Names(game.game_flags), 1, Len(pre.game_flags)) =
               Names(pre.game_flags)

\* C15 witness: set_flag wrote a flag that the game table holds and the
\* player table does not, and this is still so.
C15_Witness ==
    /\ FlagSet /\ InTable(pre.game_flags, op.arg) /\ ~InTable(pre.player.flags, op.arg)
    /\ InTable(game.game_flags, op.arg) /\ ~InTable(game.player.flags, op.arg)
    /\ calls >= 2

\* C16: check_location_requirements(location) is true if and only if every
\* (flag, required value) pair of the location equals get_flag(flag); a
\* location without required flags is accessible.
C16_RequirementsCheck ==
    (Checked /\ op.arg # 0) =>
        /\ op.ret <=> RequirementsMet(pre, op.arg)
        /\ pre.locations[op.arg].flags_required = <<>> => op.ret

\* C16 witness: a check that fails on a later pair after the first pair of
\* the location is met.
C16_Witness ==
    /\ Checked /\ op.arg # 0 /\ ~op.ret
    /\ Len(pre.locations[op.arg].flags_required) >= 2
    /\ FlagValue(pre, pre.locations[op.arg].flags_required[1].name) =
           pre.locations[op.arg].flags_required[1].value

\* C17: move_player does not gate on requirements: whether it succeeds and
\* where it lands is decided by the exits and the location table alone, and
\* it lands also where the target's requirements are not met.
C17_MoveIgnoresRequirements ==
    Moved =>
        /\ op.ret <=> (PreMatches # {} /\ Resolves(pre, PreFirst.target_location))
        /\ op.ret => /\ game.player.current_location = PreFirst.target_location
                     /\ game.player.flags = pre.player.flags
                     /\ game.game_flags = pre.game_flags

\* C17 witness: a successful move into a location whose requirements are
\* not met.
C17_Witness ==
    Moved /\ op.ret /\ ~RequirementsMet(game, Standing(game))

(***************************************************************************)
(* Claims about the command interpreter and the run loop                   *)
(***************************************************************************)
StartsWith(line, prefix) ==
    Len(line) >= Len(prefix) /\ \A k \in 1..Len(prefix) : line[k] = prefix[k]
After(line, prefix) == [k \in 1..(Len(line) - Len(prefix)) |-> line[Len(prefix) + k]]

\* main took an event from the queue
EventTaken == op.name # "load_game"
\* the last event was a RETURN that handed a line to handle_input
LineHandled == op.name = "handle_input"
Movement(line) == StartsWith(line, go_) \/ StartsWith(line, move_)
\* what follows the space of the keyword
Remainder(line) == IF StartsWith(line, go_) THEN After(line, go_) ELSE After(line, move_)
QuitLine(line) == line = quit \/ line = exit
Unrecognized(line) ==
    /\ ~Movement(line) /\ ~QuitLine(line)
    /\ line \notin {look, letter_l, inventory, letter_i, help}

\* C18 as claimed: running becomes false only as the effect of a "quit" or
\* "exit" command line, and every other command line leaves running true.
C18_OnlyQuitLineStopsLoop ==
    /\ (EventTaken /\ op.running /\ ~renderer.running) =>
           (LineHandled /\ QuitLine(op.arg))
    /\ (LineHandled /\ ~QuitLine(op.arg)) => renderer.running

\* C18 amended: running becomes false only as the effect of a "quit" or
\* "exit" command line or of an SDL_QUIT event; such a line makes it false,
\* and every other command line leaves running as it was.
C18_QuitLineOrQuitEventStopsLoop ==
    /\ (EventTaken /\ op.running /\ ~renderer.running) =>
           ((LineHandled /\ QuitLine(op.arg)) \/ op.name = "SDL_QUIT")
    /\ (LineHandled /\ QuitLine(op.arg)) => ~renderer.running
    /\ (LineHandled /\ ~QuitLine(op.arg)) => renderer.running = op.running

\* C18 witness: the line "exit" cleared running and the loop was left.
C18_Witness ==
    /\ LineHandled /\ op.arg = exit /\ op.running /\ ~renderer.running
    /\ pc = "exited"

\* C19: a line goes to move_player exactly when it starts with "go " or
\* "move " (case-sensitive), and the direction passed is all that follows
\* the keyword's space; "GO north", "go" and "gonorth" do not move.
C19_MovementLines ==
    LineHandled =>
        /\ op.why = "move" <=> Movement(op.arg)
        /\ Movement(op.arg) =>
               /\ op.direction = Remainder(op.arg)
               /\ game = move_player(pre, Remainder(op.arg)).game
               /\ op.ret = move_player(pre, Remainder(op.arg)).ret
        /\ ~Movement(op.arg) => op.direction = NULL_STR
        /\ op.arg \in {GO_ \o north, go, go \o north} => op.why = "unknown"

\* C19 witness: the line "move north" moved the player, the direction
\* passed being "north".
C19_Witness ==
    /\ LineHandled /\ op.arg = move_ \o north
    /\ op.direction = north /\ op.ret /\ game # pre

\* C20: "look", "l", "inventory", "i", "help" and every unrecognized line
\* leave the game state (current location, visited bits, inventory, flags)
\* as it was before handle_input.
C20_OtherLinesChangeNothing ==
    (LineHandled /\ (op.arg \in {look, letter_l, inventory, letter_i, help}
                     \/ Unrecognized(op.arg))) => game = pre

\* C20 witness: the unrecognized line "north" was handled where an exit
\* north leads to a location of the table, and nothing changed.
C20_Witness ==
    /\ LineHandled /\ op.arg = north /\ op.why = "unknown"
    /\ PreMatches # {} /\ Resolves(pre, PreFirst.target_location)
    /\ ~pre.locations[get_location_by_id(pre, PreFirst.target_location)].visited
    /\ game = pre

(***************************************************************************)
(* Claims about the loader                                                 *)
(***************************************************************************)
\* reading the document itself
HasMember(value, name) ==
    value.type = "object" /\ \E k \in 1..Len(value.members) : value.members[k].key = name
Member(value, name) ==
    value.members[CHOOSE k \in 1..Len(value.members) : value.members[k].key = name].value
HasString(value, name) == HasMember(value, name) /\ Member(value, name).type = "string"

\* load_game of the json-c engine returned; either variant returned a world
Loaded == op.name = "load_game"
LoadedLegacy == op.name = "load_game (cJSON)"
World == (Loaded \/ LoadedLegacy) /\ game # NULL_GAME

\* the document gives the player a current_location that is a string
PlayerLocationGiven ==
    /\ HasMember(document.json, "player")
    /\ HasString(Member(document.json, "player"), "current_location")
GivenPlayerLocation == Member(Member(document.json, "player"), "current_location").str

\* the members of the locations object that hold a value, in document order
LocationMembers ==
    IF HasMember(document.json, "locations") /\
       Member(document.json, "locations").type = "object"
    THEN SelectSeq(Member(document.json, "locations").members,
                   LAMBDA m : m.value.type # "null")
    ELSE <<>>

\* C22 as claimed: after load_game the player's current location is the
\* current_location string of the player block when the document gives
\* one, and start_location otherwise.
C22_PlayerLocationDefault ==
    World =>
        game.player.current_location =
            IF PlayerLocationGiven THEN GivenPlayerLocation ELSE game.start_location

\* C23 as claimed: in every world a successful load_game returns,
\* start_location names a location of the location table.
C23_StartLocationExists ==
    (Loaded /\ game # NULL_GAME) => Resolves(game, game.start_location)

\* C24 as claimed: in every world a successful load_game returns, the ids
\* of the location table are pairwise distinct, and get_location_by_id
\* returns each stored location for its id.
C24_LocationIdsDistinct ==
    World =>
        /\ \A a, b \in 1..Len(game.locations) :
               a # b => game.locations[a].id # game.locations[b].id
        /\ \A a \in 1..Len(game.locations) :
               get_location_by_id(game, game.locations[a].id) = a

\* C25 as claimed: the stored id of each location equals its key in the
\* locations object of the document, whatever the length of the key.
C25_IdEqualsKey ==
    (Loaded /\ game # NULL_GAME) =>
        /\ Len(game.locations) = Len(LocationMembers)
        /\ \A a \in 1..Len(game.locations) : game.locations[a].id = LocationMembers[a].key

\* C26 as claimed: load_game returns a world exactly for a readable file
\* whose text is one valid JSON object; for an unreadable file, invalid
\* text or a top-level value that is no object it returns no game state.
C26_WorldOnlyFromObject ==
    Loaded => (game # NULL_GAME <=> (document.readable /\ document.json.type = "object"))

\* C28 as claimed: on every document the legacy cJSON load_game returns the
\* world the json-c load_game returns.
C28_LoadersAgree ==
    LoadedLegacy => game = load_game(document)

(***************************************************************************)
(* Claims about missing ids                                                *)
(***************************************************************************)
Looked == op.name = "get_location_by_id"
LookedCurrent == op.name = "get_current_location"
Asked == op.name = "has_item"
\* a location of pre other than the one the player stands in has an exit
\* that matches the argument of the last call and leads to a location
SomeExitWouldDo ==
    \E a \in 1..Len(pre.locations) : \E b \in 1..Len(pre.locations[a].exits) :
        /\ EqualIgnoringCase(pre.locations[a].exits[b].direction, op.arg)
        /\ Resolves(pre, pre.locations[a].exits[b].target_location)
\* a matching exit after the first one leads to a location
LaterMatchResolves ==
    \E b \in PreMatches :
        b > Min(PreMatches) /\ Resolves(pre, PreExits[b].target_location)

\* C27: called with an id that is not there, get_location_by_id and
\* get_current_location return NULL, has_item, remove_item_from_inventory,
\* get_flag and move_player return false, and the game state is as it was;
\* this also on a world whose location table is empty.
C27_MissingIdsAreNotFound ==
    /\ (Looked /\ ~Resolves(pre, op.arg)) => op.ret = 0
    /\ (LookedCurrent /\ Standing(pre) = 0) => op.ret = 0
    /\ (Asked /\ ~Holds(pre, op.arg)) => op.ret = FALSE
    /\ (Removed /\ ~Holds(pre, op.arg)) => op.ret = FALSE
    /\ (FlagRead /\ pre # NULL_GAME /\ ~InTable(pre.player.flags, op.arg)
           /\ ~InTable(pre.game_flags, op.arg)) => op.ret = FALSE
    /\ (Moved /\ (Standing(pre) = 0 \/ PreMatches = {})) => op.ret = FALSE
    /\ (Looked \/ LookedCurrent \/ Asked \/ FlagRead
           \/ ((Removed \/ Moved) /\ ~op.ret)) => game = pre

\* C27 witness: get_location_by_id was asked for an id that a world with
\* locations does not hold, and returned NULL.
C27_Witness ==
    /\ Looked /\ pre # NULL_GAME /\ pre.locations # <<>>
    /\ ~Resolves(pre, op.arg) /\ op.ret = 0

\* C29: when the first exit that matches the direction has a target that
\* names no location, move_player fails and changes nothing even though a
\* later exit matching the same direction leads to a location.
C29_NoFallThrough ==
    (Moved /\ PreMatches # {} /\ ~Resolves(pre, PreFirst.target_location)
        /\ LaterMatchResolves) =>
        (~op.ret /\ game = pre)

\* C29 witness: a move that failed on a dangling first match while a later
\* match was sound.
C29_Witness ==
    /\ Moved /\ PreMatches # {} /\ ~Resolves(pre, PreFirst.target_location)
    /\ LaterMatchResolves /\ ~op.ret

\* C30: when the player's current location id names no location,
\* move_player fails for every direction and changes nothing.
C30_NowhereToMoveFrom ==
    (Moved /\ pre # NULL_GAME /\ ~Resolves(pre, pre.player.current_location)) =>
        (~op.ret /\ game = pre)

\* C30 witness: a move that failed because the player stands nowhere, for
\* a direction in which some location of the world has a sound exit.
C30_Witness ==
    /\ Moved /\ pre # NULL_GAME /\ ~Resolves(pre, pre.player.current_location)
    /\ SomeExitWouldDo /\ ~op.ret

(***************************************************************************)
(* The end-to-end scenario                                                 *)
(***************************************************************************)
VisitedIn(g, id) == \E a \in 1..Len(g.locations) : g.locations[a].id = id /\ g.locations[a].visited

\* C21: in the world loaded from the two-room document (start --north-->
\* room2, room2 without exits) the player starts at "start"; the line
\* "go north" handled there moves the player to room2 and sets
\* room2.visited; "go north" handled in room2 fails and leaves the player
\* in room2.
C21_EndToEnd ==
    document = TwoRoomDocument =>
        /\ ~EventTaken => game.player.current_location = start
        /\ (LineHandled /\ op.arg = go_ \o north /\ pre.player.current_location = start) =>
               /\ op.ret
               /\ game.player.current_location = room2
               /\ VisitedIn(game, room2)
        /\ (LineHandled /\ op.arg = go_ \o north /\ pre.player.current_location = room2) =>
               /\ ~op.ret
               /\ game.player.current_location = room2
               /\ game = pre

\* C21 witness: the second "go north" was handled in room2, which the first
\* one had entered and marked visited, and it failed.
C21_Witness ==
    /\ document = TwoRoomDocument
    /\ LineHandled /\ op.arg = go_ \o north /\ ~op.ret
    /\ pre.player.current_location = room2 /\ game.player.current_location = room2
    /\ VisitedIn(game, room2)

(***************************************************************************)
(* Frame claims                                                            *)
(***************************************************************************)
\* the index of the location a lookup of id finds
IndexOf(g, id) == Min({a \in 1..Len(g.locations) : g.locations[a].id = id})

\* C31: a successful move_player changes the player's current location (to
\* the target of the selected exit) and the visited bit of the target, and
\* nothing else: inventory, flag tables, exits, items and the other visited
\* bits are as before, and the flags the target sets are not applied.
C31_MoveFrame ==
    (Moved /\ op.ret) =>
        game = [pre EXCEPT
                   !.player.current_location = PreFirst.target_location,
                   !.locations[IndexOf(pre, PreFirst.target_location)].visited = TRUE]

\* C31 witness: a successful move into a location that sets a flag whose
\* value, after the move, is not the one the location sets.
C31_Witness ==
    /\ Moved /\ op.ret
    /\ game.locations[Standing(game)].flags_set # <<>>
    /\ FlagValue(game, game.locations[Standing(game)].flags_set[1].name) #
           game.locations[Standing(game)].flags_set[1].value

\* C32: get_flag is read-only: after it both flag tables (names, values,
\* counts) and the rest of the game state are as before, also when no table
\* holds the flag.
C32_GetFlagReadOnly ==
    FlagRead => game = pre

\* C32 witness: get_flag was asked for a flag that neither table holds,
\* while the player table had room for an entry.
C32_Witness ==
    /\ FlagRead /\ ~op.ret
    /\ ~InTable(pre.player.flags, op.arg) /\ ~InTable(pre.game_flags, op.arg)
    /\ Len(pre.player.flags) < MAX_FLAGS /\ Len(pre.player.flags) > 0

(***************************************************************************)
(* Claims about the capacities                                             *)
(***************************************************************************)
\* the members of an object of the document, or none
MembersOf(value, name) ==
    IF HasMember(value, name) /\ Member(value, name).type = "object"
    THEN Member(value, name).members ELSE <<>>

\* C33: in every reachable state each location has at most MAX_EXITS exits
\* and MAX_ITEMS items, and there are at most MAX_LOCATIONS locations,
\* MAX_INVENTORY_ITEMS item definitions and MAX_FLAGS player flags; what a
\* document or a set_flag brings beyond that is dropped, and the load and
\* the call go on without a failure.
C33_WithinCapacity ==
    /\ game # NULL_GAME
    /\ \A a \in 1..Len(game.locations) :
           /\ Len(game.locations[a].exits) <= MAX_EXITS
           /\ Len(game.locations[a].items) <= MAX_ITEMS
    /\ Len(game.locations) <= MAX_LOCATIONS
    /\ Len(game.inventory_items) <= MAX_INVENTORY_ITEMS
    /\ Len(game.player.flags) <= MAX_FLAGS
    /\ Len(game.locations) = Min({MAX_LOCATIONS, Len(LocationMembers)})
    /\ Len(game.inventory_items) =
           Min({MAX_INVENTORY_ITEMS, Len(MembersOf(document.json, "inventory_items"))})
    /\ Len(game.locations[1].exits) =
           Min({MAX_EXITS, Len(MembersOf(LocationMembers[1].value, "exits"))})
    /\ (FlagSet /\ Len(pre.player.flags) = MAX_FLAGS /\ ~InTable(pre.player.flags, op.arg)
           /\ ~InTable(pre.game_flags, op.arg)) => game = pre

\* C33 witness: in the world loaded from a document with more locations,
\* exits, items and item definitions than fit, a set_flag of a new name on
\* the full player table was dropped.
C33_Witness ==
    /\ Len(LocationMembers) > MAX_LOCATIONS /\ Len(game.locations) = MAX_LOCATIONS
    /\ Len(game.locations[1].exits) = MAX_EXITS
    /\ Len(game.locations[1].items) = MAX_ITEMS
    /\ Len(game.inventory_items) = MAX_INVENTORY_ITEMS
    /\ FlagSet /\ Len(pre.player.flags) = MAX_FLAGS /\ ~InTable(pre.player.flags, op.arg)
    /\ game = pre

(***************************************************************************)
(* Claims about the inventory as a sequence                                *)
(***************************************************************************)
\* the inventory of g without its element at position k
Without(inv, k) == [n \in 1..(Len(inv) - 1) |-> IF n < k THEN inv[n] ELSE inv[n + 1]]

\* C34: a successful add_item_to_inventory leaves the inventory as it was
\* with the item as a new last element; a successful
\* remove_item_from_inventory leaves it as it was without the first
\* occurrence of the item, one shorter and in the same order.
C34_InventoryOrder ==
    /\ (Added /\ op.ret) => game.player.inventory = Append(pre.player.inventory, op.arg)
    /\ (Removed /\ op.ret) =>
           /\ Holds(pre, op.arg)
           /\ game.player.inventory =
                  Without(pre.player.inventory,
                          Min({n \in 1..Len(pre.player.inventory) :
                                  pre.player.inventory[n] = op.arg}))

\* C35: after a successful remove_item_from_inventory(x) the inventory does
\* not hold x.
C35_RemovedIsGone == (Removed /\ op.ret) => ~Holds(game, op.arg)

(***************************************************************************)
(* Claims about where the player stands over a whole run                   *)
(***************************************************************************)
\* the world as load_game left it
AsLoaded == load_game(document)

\* C36: when the player's current location names a location of the table
\* right after the load, it names one in every state reached by the calls
\* that follow, and get_current_location finds it.
C36_LocationStaysResolved ==
    Resolves(AsLoaded, AsLoaded.player.current_location) =>
        /\ Resolves(game, game.player.current_location)
        /\ get_current_location(game) # 0

\* C36 witness: the player started in a location of the table, has moved to
\* another one, and a later call was made there.
C36_Witness ==
    /\ Resolves(AsLoaded, AsLoaded.player.current_location)
    /\ pre # NULL_GAME
    /\ pre.player.current_location # AsLoaded.player.current_location
    /\ Moved /\ op.ret
    /\ game.player.current_location # pre.player.current_location

\* C37: when the player's current location names no location of the table
\* right after the load, it never does: after any lines the player is still
\* at that id, and every movement line handled has failed.
C37_UnresolvedForever ==
    (AsLoaded # NULL_GAME /\ ~Resolves(AsLoaded, AsLoaded.player.current_location)) =>
        /\ game.player.current_location = AsLoaded.player.current_location
        /\ ~Resolves(game, game.player.current_location)
        /\ (LineHandled /\ Movement(op.arg)) => ~op.ret

\* C37 witness: in a world loaded with the player at an id of no location, a
\* movement line failed for a direction in which some location of the world
\* has an exit to an existing location.
C37_Witness ==
    /\ AsLoaded # NULL_GAME /\ ~Resolves(AsLoaded, AsLoaded.player.current_location)
    /\ LineHandled /\ Movement(op.arg) /\ ~op.ret
    /\ \E a \in 1..Len(pre.locations) : \E b \in 1..Len(pre.locations[a].exits) :
           /\ EqualIgnoringCase(pre.locations[a].exits[b].direction, Remainder(op.arg))
           /\ Resolves(pre, pre.locations[a].exits[b].target_location)
    /\ game.player.current_location = AsLoaded.player.current_location

(***************************************************************************)
(* Claims about the end of the loop and the input line                     *)
(***************************************************************************)
\* C38: once a "quit" or "exit" line has cleared running, no event taken
\* afterwards hands a line to handle_input or changes the game, also when
\* the events were already queued in the same pass of the polling loop.
C38_TerminatedIsAbsorbing ==
    (EventTaken /\ op.quit_line) => (~op.running /\ ~LineHandled /\ game = pre)

\* C39: after any text-input, backspace and return events the length of the
\* input line is within 0..MAX_INPUT_LENGTH - 1 and the line with its
\* terminating NUL is within the MAX_INPUT_LENGTH bytes of input_buffer,
\* also when a text-input event carried more than one byte.
C39_InputWithinBuffer ==
    /\ renderer.input_length \in 0..(MAX_INPUT_LENGTH - 1)
    /\ Len(renderer.input_buffer) <= MAX_INPUT_LENGTH - 1

====
